---- MODULE Spec2Model ----
(***************************************************************************)
(* weather_dashboard.py: a Streamlit script that reads CWA_KEY, fetches    *)
(* the 36-hour forecast (memoized for 900 s), reshapes the JSON into a     *)
(* table with to_dataframe and renders a city selector, two charts and a  *)
(* detail table.                                                           *)
(***************************************************************************)
EXTENDS Integers, Sequences, FiniteSets, TLC

VARIABLES env, pc, now, cache, requests, cycleRequests, lastFetch, lastOk,
          calls, raw_data, df, error, shown, city

vars == <<env, pc, now, cache, requests, cycleRequests, lastFetch, lastOk,
          calls, raw_data, df, error, shown, city>>

(***************************************************************************)
(* Bounds of the model.                                                    *)
(***************************************************************************)
MaxLocs == 2        \* locations in one response
MaxSlots == 2       \* time slots of one weather element
MaxTime == 2400     \* the clock stops here
TickStep == 300     \* the clock advances by TickStep or TickStep - 1 seconds
MaxRequests == 3    \* network requests in one behaviour

(***************************************************************************)
(* Helpers.                                                                *)
(***************************************************************************)
Range(s) == {s[k] : k \in DOMAIN s}

SetMax(S) == CHOOSE x \in S : \A y \in S : y <= x

SetMin(S) == CHOOSE x \in S : \A y \in S : x <= y

Pick(tbl, k) == tbl[(k % Len(tbl)) + 1]

(***************************************************************************)
(* Strings and what pandas makes of them.                                  *)
(***************************************************************************)
\* Timestamp strings in the format the API sends, in chronological order.
TimeStrs == << "2024-01-01 06:00:00", "2024-01-01 18:00:00",
               "2024-01-02 06:00:00", "2024-01-02 18:00:00",
               "2024-01-03 06:00:00", "2024-01-03 18:00:00" >>

\* Strings that are no timestamp: one that pandas rejects, and the empty
\* string, which pandas reads as a missing timestamp.
BadTimeStr == "not-a-time"
EmptyStr == ""

\* Strings of numbers, and a string that is no number.
NumStrs == << "0", "10", "20", "30", "40", "50" >>
NotANumber == "NA"

WxStrs == << "Sunny", "Cloudy", "Rain" >>
CIStrs == << "Comfortable", "Cold", "Muggy" >>

LocationNames == {"A", "B"}

\* Python compares str by code point.
NameKey(s) == IF s = "A" THEN 65 ELSE 66

\* The missing timestamp (pandas.NaT) and the missing number (NaN).
NaT == -1
NaN == -1

\* pd.to_datetime on one string: "" is NaT, a timestamp string is hours since
\* 2024-01-01 00:00, anything else raises.
CanParse(s) == s = EmptyStr \/ s \in Range(TimeStrs)

ParseTime(s) ==
    IF s = EmptyStr THEN NaT
    ELSE 12 * (CHOOSE k \in DOMAIN TimeStrs : TimeStrs[k] = s) - 6

\* A variant that puts 0 where the string is no number.
ToNumeric_fill(s) ==
    IF s \in Range(NumStrs)
    THEN 10 * ((CHOOSE k \in DOMAIN NumStrs : NumStrs[k] = s) - 1)
    ELSE 0

\* pd.to_numeric(errors="coerce") on one string.
ToNumeric(s) ==
    IF s \in Range(NumStrs)
    THEN 10 * ((CHOOSE k \in DOMAIN NumStrs : NumStrs[k] = s) - 1)
    ELSE NaN

(***************************************************************************)
(* to_dataframe                                                            *)
(***************************************************************************)
\* elements = {el["elementName"]: el["time"] for el in loc["weatherElement"]}
\* A later entry of the same name replaces an earlier one.
Elements(loc) ==
    LET we == loc.weatherElement
        names == {we[k].elementName : k \in DOMAIN we}
    IN [nm \in names |->
           we[SetMax({k \in DOMAIN we : we[k].elementName = nm})].time]

\* elements[e][i]: KeyError without the element, IndexError past its end.
Lookup(elements, e, i) ==
    IF e \notin DOMAIN elements THEN "KeyError"
    ELSE IF i > Len(elements[e]) THEN "IndexError"
    ELSE "none"

\* The row literal reads PoP, Wx, CI, MinT, MaxT in this order; the first
\* lookup that fails raises.
RowError(elements, i) ==
    LET order == << "Wx", "CI", "MinT", "MaxT" >>
        bad == {k \in DOMAIN order : Lookup(elements, order[k], i) # "none"}
    IN IF bad = {} THEN "none" ELSE Lookup(elements, order[SetMin(bad)], i)

\* A variant that reads Wx from CI and CI from Wx.
Row_swapped(name, elements, i) ==
    [location |-> name,
     startTime |-> elements["PoP"][i].startTime,
     endTime |-> elements["PoP"][i].endTime,
     PoP |-> elements["PoP"][i].parameterName,
     Wx |-> elements["CI"][i].parameterName,
     CI |-> elements["Wx"][i].parameterName,
     MinT |-> elements["MinT"][i].parameterName,
     MaxT |-> elements["MaxT"][i].parameterName]

\* The dict of lines 45-54, for slot i.
Row(name, elements, i) ==
    [location |-> name,
     startTime |-> elements["PoP"][i].startTime,
     endTime |-> elements["PoP"][i].endTime,
     PoP |-> elements["PoP"][i].parameterName,
     Wx |-> elements["Wx"][i].parameterName,
     CI |-> elements["CI"][i].parameterName,
     MinT |-> elements["MinT"][i].parameterName,
     MaxT |-> elements["MaxT"][i].parameterName]

\* A variant that leaves out a location whose rows cannot be built.
RECURSIVE BuildRows_skip(_, _, _)
BuildRows_skip(locations, j, rows) ==
    IF j > Len(locations) THEN [error |-> "none", rows |-> rows]
    ELSE LET loc == locations[j]
             elements == Elements(loc)
         IN IF "PoP" \notin DOMAIN elements
            THEN BuildRows_skip(locations, j + 1, rows)
            ELSE LET times == elements["PoP"]
                     bad == {i \in DOMAIN times : RowError(elements, i) # "none"}
                 IN IF bad # {}
                    THEN BuildRows_skip(locations, j + 1, rows)
                    ELSE BuildRows_skip(locations, j + 1,
                             rows \o [i \in DOMAIN times |->
                                         Row(loc.locationName, elements, i)])

\* The loop over the locations: the rows in emission order, or the first error.
RECURSIVE BuildRows(_, _, _)
BuildRows(locations, j, rows) ==
    IF j > Len(locations) THEN [error |-> "none", rows |-> rows]
    ELSE LET loc == locations[j]
             elements == Elements(loc)
         IN IF "PoP" \notin DOMAIN elements
            THEN [error |-> "KeyError", rows |-> <<>>]
            ELSE LET times == elements["PoP"]
                     bad == {i \in DOMAIN times : RowError(elements, i) # "none"}
                 IN IF bad # {}
                    THEN [error |-> RowError(elements, SetMin(bad)), rows |-> <<>>]
                    ELSE BuildRows(locations, j + 1,
                             rows \o [i \in DOMAIN times |->
                                         Row(loc.locationName, elements, i)])

\* The five conversions of the columns, once every timestamp string parses.
Coerce(rows) ==
    [k \in DOMAIN rows |->
        [location |-> rows[k].location,
         startTime |-> ParseTime(rows[k].startTime),
         endTime |-> ParseTime(rows[k].endTime),
         PoP |-> ToNumeric(rows[k].PoP),
         Wx |-> rows[k].Wx,
         CI |-> rows[k].CI,
         MinT |-> ToNumeric(rows[k].MinT),
         MaxT |-> ToNumeric(rows[k].MaxT)]]

\* Order of sort_values(["location", "startTime"]): NaT sorts last.
TimeLess(x, y) == x # NaT /\ (y = NaT \/ x < y)

RowLess(a, b) ==
    \/ NameKey(a.location) < NameKey(b.location)
    \/ a.location = b.location /\ TimeLess(a.startTime, b.startTime)

\* A variant that sorts by location only.
SortValues_byLocation(rows) ==
    LET before(m, k) ==
            \/ NameKey(rows[m].location) < NameKey(rows[k].location)
            \/ rows[m].location = rows[k].location /\ m < k
        pos == [k \in DOMAIN rows |->
                   Cardinality({m \in DOMAIN rows : before(m, k)}) + 1]
    IN [p \in DOMAIN rows |-> rows[CHOOSE k \in DOMAIN rows : pos[k] = p]]

\* sort_values on several columns is a stable sort; reset_index renumbers.
SortValues(rows) ==
    LET before(m, k) ==
            \/ RowLess(rows[m], rows[k])
            \/ ~RowLess(rows[k], rows[m]) /\ m < k
        pos == [k \in DOMAIN rows |->
                   Cardinality({m \in DOMAIN rows : before(m, k)}) + 1]
    IN [p \in DOMAIN rows |-> rows[CHOOSE k \in DOMAIN rows : pos[k] = p]]

to_dataframe(data) ==
    IF "records" \notin DOMAIN data
    THEN [error |-> "KeyError", df |-> <<>>]
    ELSE LET built == BuildRows(data.records.location, 1, <<>>)
             rows == built.rows
         IN IF built.error # "none"
            THEN [error |-> built.error, df |-> <<>>]
            ELSE IF rows = <<>>
            THEN [error |-> "KeyError", df |-> <<>>]
            ELSE IF \E k \in DOMAIN rows : ~CanParse(rows[k].startTime)
            THEN [error |-> "ValueError", df |-> <<>>]
            ELSE IF \E k \in DOMAIN rows : ~CanParse(rows[k].endTime)
            THEN [error |-> "ValueError", df |-> <<>>]
            ELSE [error |-> "none", df |-> SortValues(Coerce(rows))]

(***************************************************************************)
(* The responses the upstream API may send.  A response is a list of       *)
(* locations with the five elements on one time axis, and at most one      *)
(* location departs from that shape in one way.                            *)
(***************************************************************************)
\* weatherElement in the order the API lists it.
ElementNames == << "Wx", "PoP", "MinT", "CI", "MaxT" >>

Layouts == {"asc", "desc"}

\* The slots of a location in chronological order, or latest first.
TimeIdx(layout, n, i) == IF layout = "asc" THEN i ELSE n + 1 - i

ValueOf(e, j, i) ==
    IF e = "PoP" THEN Pick(NumStrs, i + j)
    ELSE IF e = "MinT" THEN Pick(NumStrs, i + j + 2)
    ELSE IF e = "MaxT" THEN Pick(NumStrs, i + j + 4)
    ELSE IF e = "Wx" THEN Pick(WxStrs, i + j)
    ELSE Pick(CIStrs, i + j)

PlainTime(e, j, n, layout) ==
    [i \in 1..n |->
        [startTime |-> TimeStrs[TimeIdx(layout, n, i)],
         endTime |-> TimeStrs[TimeIdx(layout, n, i) + 1],
         parameterName |-> ValueOf(e, j, i)]]

PlainLocation(nm, j, n, layout) ==
    [locationName |-> nm,
     weatherElement |->
        [k \in DOMAIN ElementNames |->
            [elementName |-> ElementNames[k],
             time |-> PlainTime(ElementNames[k], j, n, layout)]]]

NoDefect == [kind |-> "none", element |-> "", slot |-> 0, text |-> ""]

\* The ways one location departs from the plain shape; a slot defect sits in
\* the first or the last slot.
Defects(n) ==
    {[kind |-> "missing", element |-> e, slot |-> 0, text |-> ""] :
        e \in Range(ElementNames)}
    \cup {[kind |-> "short", element |-> e, slot |-> 0, text |-> ""] :
        e \in IF n >= 1 THEN {"PoP", "Wx"} ELSE {}}
    \cup {[kind |-> "value", element |-> e, slot |-> s, text |-> NotANumber] :
        e \in {"PoP", "MinT", "MaxT"}, s \in {1, n} \cap (1..n)}
    \cup {[kind |-> "start", element |-> "PoP", slot |-> s, text |-> t] :
        s \in {1, n} \cap (1..n), t \in {BadTimeStr, EmptyStr}}
    \cup {[kind |-> "end", element |-> "PoP", slot |-> s, text |-> BadTimeStr] :
        s \in {1, n} \cap (1..n)}
    \cup {[kind |-> k, element |-> "", slot |-> 0, text |-> ""] :
        k \in {"misaligned", "duplicate"}}

NewTime(time, d) ==
    IF d.kind = "short" THEN SubSeq(time, 1, Len(time) - 1)
    ELSE IF d.kind = "value"
    THEN [time EXCEPT ![d.slot].parameterName = d.text]
    ELSE IF d.kind = "start"
    THEN [time EXCEPT ![d.slot].startTime = d.text]
    ELSE [time EXCEPT ![d.slot].endTime = d.text]

WithDefect(loc, d) ==
    LET we == loc.weatherElement
        pop == (CHOOSE k \in DOMAIN we : we[k].elementName = "PoP")
    IN IF d.kind = "missing"
       THEN [loc EXCEPT !.weatherElement =
                SelectSeq(we, LAMBDA el : el.elementName # d.element)]
       ELSE IF d.kind = "misaligned"
       THEN [loc EXCEPT !.weatherElement =
                [k \in DOMAIN we |->
                    IF we[k].elementName # "Wx" THEN we[k]
                    ELSE [we[k] EXCEPT !.time =
                            [i \in DOMAIN we[k].time |->
                                [we[k].time[i] EXCEPT
                                    !.startTime = TimeStrs[5],
                                    !.endTime = TimeStrs[6]]]]]]
       ELSE IF d.kind = "duplicate"
       THEN [loc EXCEPT !.weatherElement =
                Append(we, [elementName |-> "PoP",
                            time |-> SubSeq(we[pop].time, 2, Len(we[pop].time))])]
       ELSE [loc EXCEPT !.weatherElement =
                [k \in DOMAIN we |->
                    IF we[k].elementName # d.element THEN we[k]
                    ELSE [we[k] EXCEPT !.time = NewTime(we[k].time, d)]]]

\* sh[j] = <<locationName, number of slots>> of the j-th location.
Shapes == UNION {[1..k -> LocationNames \X (0..MaxSlots)] : k \in 0..MaxLocs}

MakeResponse(sh, layout, at, d) ==
    [records |->
        [location |->
            [j \in DOMAIN sh |->
                IF j = at
                THEN WithDefect(PlainLocation(sh[j][1], j, sh[j][2], layout), d)
                ELSE PlainLocation(sh[j][1], j, sh[j][2], layout)]]]

\* A body without "records".
NoRecords == [message |-> "Resource not found."]

NoData == [none |-> TRUE]

\* The defects a response may carry at location `at` (0: none).
DefectsAt(sh, at) ==
    IF at = 0 THEN {NoDefect}
    ELSE IF at \in DOMAIN sh THEN Defects(sh[at][2])
    ELSE {}

\* The responses the whole program is run against.
AppResponses ==
    {NoRecords,
     MakeResponse(<<>>, "asc", 0, NoDefect),
     MakeResponse(<< <<"B", 2>>, <<"A", 1>> >>, "desc", 0, NoDefect),
     MakeResponse(<< <<"A", 1>> >>, "asc", 1,
        [kind |-> "missing", element |-> "CI", slot |-> 0, text |-> ""]),
     MakeResponse(<< <<"A", 1>> >>, "asc", 1,
        [kind |-> "start", element |-> "PoP", slot |-> 1, text |-> BadTimeStr]),
     MakeResponse(<< <<"A", 1>> >>, "asc", 1,
        [kind |-> "value", element |-> "PoP", slot |-> 1, text |-> NotANumber])}

(***************************************************************************)
(* The script                                                              *)
(***************************************************************************)
TTL == 900

Absent == "<unset>"

\* os.environ.get("CWA_KEY", "")
CWA_KEY == IF env = Absent THEN "" ELSE env

\* A variant without the check.
KeyMissing_never == FALSE

\* if not CWA_KEY
KeyMissing == CWA_KEY = ""

\* A variant that still serves the entry at the instant it expires.
CacheHit_inclusive == cache # <<>> /\ now <= cache[1].expires

\* st.cache_data(ttl=900): the entry is served while it has not expired.
CacheHit == cache # <<>> /\ now < cache[1].expires

Widgets == {"selectbox", "line_chart", "bar_chart", "dataframe"}

\* all_locations = df["location"].unique().tolist()
AllLocations(table) == {table[k].location : k \in DOMAIN table}

Init ==
    /\ env \in {Absent, "", "secret"}
    /\ pc = "idle"
    /\ now = 0
    /\ cache = <<>>
    /\ requests = 0
    /\ cycleRequests = 0
    /\ lastFetch = "none"
    /\ lastOk = <<>>
    /\ calls = {}
    /\ raw_data = NoData
    /\ df = <<>>
    /\ error = "none"
    /\ shown = {}
    /\ city = ""

\* Time passes, by a step or by a second less.
Tick ==
    /\ \E d \in {TickStep - 1, TickStep} :
        /\ now + d <= MaxTime
        /\ now' = now + d
    /\ UNCHANGED <<env, pc, cache, requests, cycleRequests, lastFetch, lastOk,
                   calls, raw_data, df, error, shown, city>>

\* A page load or a rerun: lines 7-18 and line 70.
StartRun ==
    /\ pc \in {"idle", "done", "stopped"}
    /\ cycleRequests' = 0
    /\ calls' = {}
    /\ raw_data' = NoData
    /\ df' = <<>>
    /\ IF KeyMissing
       THEN /\ shown' = {"title", "caption", "error"}
            /\ error' = "ConfigError"
            /\ pc' = "stopped"
       ELSE /\ shown' = {"title", "caption", "info"}
            /\ error' = "none"
            /\ pc' = "fetch"
    /\ UNCHANGED <<env, now, cache, requests, lastFetch, lastOk, city>>

\* fetch_forecast() served from the cache.
FetchHit ==
    /\ pc = "fetch"
    /\ CacheHit
    /\ calls' = calls \cup {"fetch_forecast"}
    /\ raw_data' = cache[1].value
    /\ lastFetch' = "hit"
    /\ pc' = "transform"
    /\ UNCHANGED <<env, now, cache, requests, cycleRequests, lastOk, df, error,
                   shown, city>>

\* fetch_forecast() runs its body: requests.get is sent.
FetchMiss ==
    /\ pc = "fetch"
    /\ ~CacheHit
    /\ requests < MaxRequests
    /\ calls' = calls \cup {"fetch_forecast"}
    /\ requests' = requests + 1
    /\ cycleRequests' = cycleRequests + 1
    /\ pc' = "waiting"
    /\ UNCHANGED <<env, now, cache, lastFetch, lastOk, raw_data, df, error,
                   shown, city>>

\* The request succeeds and the body is JSON: the result is stored.
ReceiveOk ==
    /\ pc = "waiting"
    /\ \E data \in AppResponses :
        /\ raw_data' = data
        /\ cache' = << [value |-> data, expires |-> now + TTL] >>
        /\ lastOk' = << [time |-> now, data |-> data] >>
    /\ lastFetch' = "ok"
    /\ pc' = "transform"
    /\ UNCHANGED <<env, now, requests, cycleRequests, calls, df, error, shown,
                   city>>

\* A variant that sends the request again when it fails.
ReceiveFail_retry ==
    /\ pc = "waiting"
    /\ requests < MaxRequests
    /\ requests' = requests + 1
    /\ cycleRequests' = cycleRequests + 1
    /\ UNCHANGED <<env, pc, now, cache, lastFetch, lastOk, calls, raw_data, df,
                   error, shown, city>>

\* requests.get, raise_for_status or resp.json() raises: lines 75-77.
ReceiveFail ==
    /\ pc = "waiting"
    /\ lastFetch' = "fail"
    /\ error' = "RequestException"
    /\ shown' = shown \cup {"error"}
    /\ pc' = "stopped"
    /\ UNCHANGED <<env, now, cache, requests, cycleRequests, lastOk, calls,
                   raw_data, df, city>>

\* A variant whose except block does not stop the script.
Transform_nostop ==
    /\ pc = "transform"
    /\ calls' = calls \cup {"to_dataframe"}
    /\ \E r \in {to_dataframe(raw_data)} :
          /\ df' = r.df
          /\ error' = r.error
          /\ shown' = IF r.error = "none" THEN shown ELSE shown \cup {"error"}
          /\ pc' = "render"
    /\ UNCHANGED <<env, now, cache, requests, cycleRequests, lastFetch, lastOk,
                   raw_data, city>>

\* df = to_dataframe(raw_data), and lines 75-77 when it raises.
Transform ==
    /\ pc = "transform"
    /\ calls' = calls \cup {"to_dataframe"}
    /\ \E r \in {to_dataframe(raw_data)} :
          /\ df' = r.df
          /\ error' = r.error
          /\ shown' = IF r.error = "none" THEN shown ELSE shown \cup {"error"}
          /\ pc' = IF r.error = "none" THEN "render" ELSE "stopped"
    /\ UNCHANGED <<env, now, cache, requests, cycleRequests, lastFetch, lastOk,
                   raw_data, city>>

\* Lines 79-112: the selector (the first city, or the one the user chose),
\* the two charts and the table.
Render ==
    /\ pc = "render"
    /\ city' \in AllLocations(df)
    /\ shown' = shown \cup Widgets
    /\ pc' = "done"
    /\ UNCHANGED <<env, now, cache, requests, cycleRequests, lastFetch, lastOk,
                   calls, raw_data, df, error>>

Next ==
    \/ Tick
    \/ StartRun
    \/ FetchHit
    \/ FetchMiss
    \/ ReceiveOk
    \/ ReceiveFail
    \/ Transform
    \/ Render

Spec == Init /\ [][Next]_vars

(***************************************************************************)
(* to_dataframe on every response: the state after fetch_forecast returned *)
(* the response, and the call of line 74.                                  *)
(***************************************************************************)
AfterFetch(data) ==
    /\ env = "secret"
    /\ pc = "transform"
    /\ now = 0
    /\ raw_data = data
    /\ cache = << [value |-> data, expires |-> TTL] >>
    /\ lastOk = << [time |-> 0, data |-> data] >>
    /\ requests = 1
    /\ cycleRequests = 1
    /\ lastFetch = "ok"
    /\ calls = {"fetch_forecast"}
    /\ df = <<>>
    /\ error = "none"
    /\ shown = {"title", "caption", "info"}
    /\ city = ""

InitTransform ==
    \/ AfterFetch(NoRecords)
    \/ \E sh \in Shapes, lay \in Layouts, at \in 0..MaxLocs :
          \E d \in DefectsAt(sh, at) :
             AfterFetch(MakeResponse(sh, lay, at, d))

NextTransform == Transform

SpecTransform == InitTransform /\ [][NextTransform]_vars

(***************************************************************************)
(* What the claims speak of: the response handed to to_dataframe, read     *)
(* directly, and the table it returned.                                    *)
(***************************************************************************)
Required == {"PoP", "Wx", "CI", "MinT", "MaxT"}

Called == "to_dataframe" \in calls

HasRecords == "records" \in DOMAIN raw_data

Locs == raw_data.records.location

Named(loc, e) ==
    {k \in DOMAIN loc.weatherElement : loc.weatherElement[k].elementName = e}

Has(loc, e) == Named(loc, e) # {}

\* The time slots of element e of a location (of the last entry of that name).
Slots(loc, e) == loc.weatherElement[SetMax(Named(loc, e))].time

NumSlots(loc) == Len(Slots(loc, "PoP"))

IsTimestamp(s) == s \in Range(TimeStrs)

IsNumber(s) == s \in Range(NumStrs)

\* Every location has each of the five elements once, no element is shorter
\* than PoP, and the PoP slots carry timestamps.
WellFormed ==
    /\ HasRecords
    /\ \A j \in DOMAIN Locs :
        /\ \A e \in Required : Cardinality(Named(Locs[j], e)) = 1
        /\ \A e \in Required : Len(Slots(Locs[j], e)) >= NumSlots(Locs[j])
        /\ \A i \in 1..NumSlots(Locs[j]) :
            /\ IsTimestamp(Slots(Locs[j], "PoP")[i].startTime)
            /\ IsTimestamp(Slots(Locs[j], "PoP")[i].endTime)

RECURSIVE SumSlots(_, _)
SumSlots(locs, j) ==
    IF j > Len(locs) THEN 0 ELSE NumSlots(locs[j]) + SumSlots(locs, j + 1)

SameBag(s, t) ==
    /\ Len(s) = Len(t)
    /\ \A x \in Range(s) \cup Range(t) :
          Cardinality({k \in DOMAIN s : s[k] = x})
              = Cardinality({k \in DOMAIN t : t[k] = x})

\* A number, or the missing value for a string that is no number.
NumberOrMissing(s) == IF IsNumber(s) THEN ToNumeric(s) ELSE NaN

\* The row of slot i of a location, every field from slot i of its own element.
AlignedRow(loc, i) ==
    [location |-> loc.locationName,
     startTime |-> ParseTime(Slots(loc, "PoP")[i].startTime),
     endTime |-> ParseTime(Slots(loc, "PoP")[i].endTime),
     PoP |-> NumberOrMissing(Slots(loc, "PoP")[i].parameterName),
     Wx |-> Slots(loc, "Wx")[i].parameterName,
     CI |-> Slots(loc, "CI")[i].parameterName,
     MinT |-> NumberOrMissing(Slots(loc, "MinT")[i].parameterName),
     MaxT |-> NumberOrMissing(Slots(loc, "MaxT")[i].parameterName)]

\* The rows in emission order: input location order, then slot index.
RECURSIVE AlignedRows(_, _)
AlignedRows(locs, j) ==
    IF j > Len(locs) THEN <<>>
    ELSE [i \in 1..NumSlots(locs[j]) |-> AlignedRow(locs[j], i)]
            \o AlignedRows(locs, j + 1)

SameKey(a, b) == a.location = b.location /\ a.startTime = b.startTime

(***************************************************************************)
(* C5                                                                      *)
(***************************************************************************)
\* C5 (as claimed): for a well-formed response, to_dataframe returns a table
\* with exactly as many rows as there are PoP slots over all locations, also
\* when that number is 0.
C5_RowCount ==
    (Called /\ WellFormed) =>
        (error = "none" /\ Len(df) = SumSlots(Locs, 1))

(***************************************************************************)
(* C6                                                                      *)
(***************************************************************************)
\* C6: the returned table is ordered by location name ascending and, within
\* one location name, by startTime ascending; rows with the same location and
\* startTime keep their emission order, also when the name comes from two
\* Location entries.
C6_SortOrder ==
    (Called /\ error = "none") =>
        /\ \A p, q \in DOMAIN df :
            p < q =>
                /\ NameKey(df[p].location) <= NameKey(df[q].location)
                /\ (df[p].location = df[q].location
                        /\ df[p].startTime # NaT /\ df[q].startTime # NaT)
                    => df[p].startTime <= df[q].startTime
        /\ \A x \in Range(df) :
            SelectSeq(df, LAMBDA r : SameKey(r, x))
                = SelectSeq(AlignedRows(Locs, 1), LAMBDA r : SameKey(r, x))

\* Two distinguishable rows with one location name and one startTime, from two
\* Location entries, and a location whose slots arrive latest first.
C6_Witness ==
    /\ Called /\ error = "none"
    /\ \E p, q \in DOMAIN df :
        p < q /\ SameKey(df[p], df[q]) /\ df[p] # df[q]
    /\ Len(Locs) >= 2
    /\ \E j \in DOMAIN Locs :
        /\ NumSlots(Locs[j]) >= 2
        /\ Slots(Locs[j], "PoP")[1].startTime = TimeStrs[2]
        /\ Slots(Locs[j], "PoP")[2].startTime = TimeStrs[1]

(***************************************************************************)
(* C7                                                                      *)
(***************************************************************************)
\* C7 (as claimed): whenever some location lacks one of the five required
\* elements, to_dataframe fails and returns no table, whatever the number of
\* PoP slots of that location.
C7_MissingElementAlwaysFails ==
    (Called /\ HasRecords
        /\ \E j \in DOMAIN Locs : \E e \in Required : ~Has(Locs[j], e))
    => (error # "none" /\ df = <<>>)

\* C7 (amended): whenever some location lacks PoP, or has at least one PoP
\* slot and lacks one of Wx, CI, MinT, MaxT, to_dataframe fails and returns no
\* table, whatever the other locations contain.
C7_MissingElementFails ==
    (Called /\ HasRecords
        /\ \E j \in DOMAIN Locs :
            \/ ~Has(Locs[j], "PoP")
            \/ NumSlots(Locs[j]) >= 1 /\ \E e \in Required : ~Has(Locs[j], e))
    => (error # "none" /\ df = <<>>)

\* The second of two locations has a slot and no CI; the first is complete.
C7_Witness ==
    /\ Called /\ HasRecords
    /\ Len(Locs) = 2
    /\ \A e \in Required : Has(Locs[1], e)
    /\ NumSlots(Locs[1]) >= 1
    /\ ~Has(Locs[2], "CI") /\ Has(Locs[2], "PoP") /\ NumSlots(Locs[2]) >= 1
    /\ error = "KeyError"

(***************************************************************************)
(* C8                                                                      *)
(***************************************************************************)
\* C8: when in each location the five elements have slot sequences of equal
\* length, the rows of the returned table are exactly the rows that take, for
\* location L and index i, the times from the i-th PoP slot of L and each of
\* the five values from the i-th slot of the element of that name in L.
C8_IndexAlignment ==
    (Called /\ error = "none" /\ HasRecords
        /\ (\A j \in DOMAIN Locs : \A e \in Required :
                /\ Has(Locs[j], e)
                /\ Len(Slots(Locs[j], e)) = NumSlots(Locs[j])))
    => SameBag(df, AlignedRows(Locs, 1))

\* Two locations of two slots each, where the time axis of Wx differs from
\* that of PoP in one of them.
C8_Witness ==
    /\ Called /\ error = "none"
    /\ Len(Locs) = 2
    /\ \A j \in DOMAIN Locs : \A e \in Required :
        Has(Locs[j], e) /\ Len(Slots(Locs[j], e)) = 2
    /\ \E j \in DOMAIN Locs :
        Slots(Locs[j], "Wx")[1].startTime # Slots(Locs[j], "PoP")[1].startTime
    /\ Len(df) = 4

(***************************************************************************)
(* C9                                                                      *)
(***************************************************************************)
\* C9: for a well-formed response, a PoP, MinT or MaxT value that is no number
\* does not make to_dataframe fail and drops no row: the table has every row,
\* with a missing value in exactly the fields whose string is no number, and
\* every other field (Wx and CI as the strings they were) unchanged.
C9_NumericTolerance ==
    (Called /\ WellFormed
        /\ \E j \in DOMAIN Locs : \E i \in 1..NumSlots(Locs[j]) :
            \E e \in {"PoP", "MinT", "MaxT"} :
                ~IsNumber(Slots(Locs[j], e)[i].parameterName))
    => /\ error = "none"
       /\ Len(df) = SumSlots(Locs, 1)
       /\ SameBag(df, AlignedRows(Locs, 1))
       /\ \A e \in {"PoP", "MinT", "MaxT"} :
            Cardinality({k \in DOMAIN df :
                            (IF e = "PoP" THEN df[k].PoP
                             ELSE IF e = "MinT" THEN df[k].MinT
                             ELSE df[k].MaxT) = NaN})
              = Cardinality({c \in (DOMAIN Locs) \X (1..MaxSlots + 1) :
                                /\ c[2] <= NumSlots(Locs[c[1]])
                                /\ ~IsNumber(Slots(Locs[c[1]], e)[c[2]].parameterName)})

\* "NA" as the MinT of the second slot of a location among two; the table has
\* one missing MinT and no missing PoP.
C9_Witness ==
    /\ Called /\ WellFormed /\ error = "none"
    /\ Len(Locs) = 2
    /\ \E j \in DOMAIN Locs :
        /\ NumSlots(Locs[j]) = 2
        /\ Slots(Locs[j], "MinT")[2].parameterName = NotANumber
    /\ Cardinality({k \in DOMAIN df : df[k].MinT = NaN}) = 1
    /\ Cardinality({k \in DOMAIN df : df[k].PoP = NaN}) = 0
    /\ Len(df) >= 3

(***************************************************************************)
(* C10                                                                     *)
(***************************************************************************)
\* C10 (as claimed): whenever a PoP slot has a startTime or endTime string
\* that is no timestamp, to_dataframe fails and returns no table; it never
\* returns a table with a missing timestamp.
C10_TimestampStrictness ==
    (Called /\ HasRecords
        /\ (\A m \in DOMAIN Locs : Has(Locs[m], "PoP"))
        /\ \E j \in DOMAIN Locs : \E i \in 1..NumSlots(Locs[j]) :
            \/ ~IsTimestamp(Slots(Locs[j], "PoP")[i].startTime)
            \/ ~IsTimestamp(Slots(Locs[j], "PoP")[i].endTime))
    => (error # "none" /\ df = <<>>)

(***************************************************************************)
(* C1                                                                      *)
(***************************************************************************)
\* A step in which fetch_forecast() is called.
FetchCall == pc = "fetch" /\ pc' # "fetch"

\* Seconds since the last call that ran the request and returned its result.
SinceLastOk == now - lastOk[1].time

\* C1: a call made less than 900 seconds after the completion of the last
\* successful request returns that memoized response and sends no request; a
\* call made once the 900 seconds are over sends exactly one request.
C1_CacheWindow ==
    [][(FetchCall /\ lastOk # <<>>) =>
          IF SinceLastOk < 900
          THEN /\ requests' = requests
               /\ raw_data' = lastOk[1].data
               /\ pc' = "transform"
          ELSE /\ requests' = requests + 1
               /\ cycleRequests' = 1]_vars

\* A request took 300 s and succeeded; a call 600 s after its completion was
\* served from the cache; the call 900 s after it sent the second request.
C1_Witness ==
    /\ lastOk # <<>> /\ lastOk[1].time = 300
    /\ now = 1200
    /\ lastFetch = "hit"
    /\ pc = "waiting"
    /\ requests = 2

(***************************************************************************)
(* C2                                                                      *)
(***************************************************************************)
\* C2: when CWA_KEY is absent or empty, a run shows the configuration error
\* and halts; no request is sent and neither fetch_forecast nor to_dataframe
\* is called.
C2_CredentialGate ==
    (env = Absent \/ env = "") =>
        /\ requests = 0
        /\ calls = {}
        /\ pc \in {"idle", "stopped"}
        /\ pc = "stopped" =>
            /\ error = "ConfigError"
            /\ "error" \in shown
            /\ shown \cap Widgets = {}

\* A run without the variable has halted, some time after the start.
C2_Witness ==
    /\ env = Absent
    /\ pc = "stopped"
    /\ "error" \in shown
    /\ now > 0

(***************************************************************************)
(* C3                                                                      *)
(***************************************************************************)
\* C3: in a render cycle in which fetch_forecast or to_dataframe failed, the
\* error message is shown, the cycle has halted, and none of the selector,
\* the charts and the table is rendered.
C3_ErrorPropagation ==
    (error \notin {"none", "ConfigError"}) =>
        /\ pc = "stopped"
        /\ "error" \in shown
        /\ shown \cap Widgets = {}
        /\ df = <<>>

\* to_dataframe failed on a timestamp in a cycle that was served from the cache.
C3_Witness ==
    /\ error = "ValueError"
    /\ lastFetch = "hit"
    /\ pc = "stopped"
    /\ "error" \in shown

(***************************************************************************)
(* C4                                                                      *)
(***************************************************************************)
\* C4: a render cycle sends at most one request, also when it fails; a failed
\* fetch is not memoized, so the next call of fetch_forecast sends a new
\* request, however soon after the failure.
C4_NoRetry ==
    /\ [](cycleRequests <= 1)
    /\ [][(FetchCall /\ lastFetch = "fail") =>
            (requests' = requests + 1 /\ pc' = "waiting")]_vars

\* The cycle after a failed fetch has sent its own request, the second one,
\* with no time passed since the start.
C4_Witness ==
    /\ lastFetch = "fail"
    /\ pc = "waiting"
    /\ requests = 2
    /\ cycleRequests = 1
    /\ now = 0

====
